---- MODULE Spec2Model ----
(***************************************************************************)
(* Model of core/site_generator.py: the build pipeline build_site and the  *)
(* functions it is made of.                                                *)
(*                                                                         *)
(* A Python str is modelled as a sequence of atoms.  An atom is a one-     *)
(* character string, or a longer string standing for a piece of text that  *)
(* the program treats as a unit and never looks inside (an HTML tag).      *)
(***************************************************************************)
EXTENDS Integers, Sequences, FiniteSets, TLC

VARIABLES
    arg, res,                 \* argument and result of a function call
    mainDir, blogDir,         \* os.listdir order of INPUT_DIR and INPUT_DIR/blog
    cfg,                      \* CONFIG['SETTINGS'] flags
    scssOk,                   \* whether the scss sources compile
    dist, dirs,               \* files and directories under OUTPUT_DIR
    pc, i,                    \* position in build_site, position in a listing
    posts,                    \* the local variable posts of build_site
    trace,                    \* the stages completed by the current build
    passed,                   \* post_list arguments given to inject_html
    written,                  \* paths written by the current build
    failed, raised,           \* stage that raised, exception that propagated
    logged, printed,          \* exception printed, duration line printed
    run, prevDist,            \* builds started, tree at the previous Done
    todo                      \* documents not yet converted (worker pool)

vars == <<arg, res, mainDir, blogDir, cfg, scssOk, dist, dirs, pc, i, posts,
          trace, passed, written, failed, raised, logged, printed, run, prevDist,
          todo>>

buildVars == <<mainDir, blogDir, cfg, scssOk, dist, dirs, pc, i, posts,
               trace, passed, written, failed, raised, logged, printed, run,
               prevDist, todo>>

(***************************************************************************)
(* Bounds                                                                  *)
(***************************************************************************)
MaxLines == 4
MaxMainFiles == 1
MaxBlogFiles == 2
MaxRuns == 2
MaxHtml == 3

(***************************************************************************)
(* str methods                                                             *)
(***************************************************************************)
None == <<"None">>

Range(s) == {s[k] : k \in 1..Len(s)}

Drop(s, n) == IF n >= Len(s) THEN <<>> ELSE SubSeq(s, n + 1, Len(s))

Take(s, n) == IF n >= Len(s) THEN s ELSE SubSeq(s, 1, n)

startswith(s, p) == Len(s) >= Len(p) /\ SubSeq(s, 1, Len(p)) = p

endswith(s, p) == Len(s) >= Len(p) /\ SubSeq(s, Len(s) - Len(p) + 1, Len(s)) = p

\* s.find(p): the first (1-based) position at which p occurs in s, 0 if none
find(s, p) ==
    LET hits == {k \in 1..(Len(s) - Len(p) + 1) : SubSeq(s, k, k + Len(p) - 1) = p}
    IN  IF hits = {} THEN 0 ELSE CHOOSE k \in hits : \A h \in hits : k <= h

RECURSIVE replace(_, _, _)
replace(s, old, new) ==
    IF s = <<>> THEN <<>>
    ELSE IF startswith(s, old) THEN new \o replace(Drop(s, Len(old)), old, new)
    ELSE <<Head(s)>> \o replace(Tail(s), old, new)

IsSpace(c) == c = " "

RECURSIVE lstrip(_)
lstrip(s) == IF s # <<>> /\ IsSpace(Head(s)) THEN lstrip(Tail(s)) ELSE s

RECURSIVE rstrip(_)
rstrip(s) ==
    IF s # <<>> /\ IsSpace(s[Len(s)]) THEN rstrip(SubSeq(s, 1, Len(s) - 1)) ELSE s

strip(s) == rstrip(lstrip(s))

\* s.split(sep, 1) for a one-character sep
split1(s, sep) ==
    LET k == find(s, <<sep>>)
    IN  IF k = 0 THEN <<s>> ELSE <<SubSeq(s, 1, k - 1), Drop(s, k)>>

\* s.split(sep)[0] for a one-character sep
split0(s, sep) == split1(s, sep)[1]

Upper(c) ==
    CASE c = "a" -> "A" [] c = "b" -> "B" [] c = "d" -> "D" [] c = "m" -> "M"
      [] c = "n" -> "N" [] c = "t" -> "T" [] c = "x" -> "X" [] OTHER -> c

Lower(c) ==
    CASE c = "A" -> "a" [] c = "B" -> "b" [] c = "D" -> "d" [] c = "M" -> "m"
      [] c = "N" -> "n" [] c = "T" -> "t" [] c = "X" -> "x" [] OTHER -> c

IsAlpha(c) == Upper(c) # c \/ Lower(c) # c

title(s) ==
    [k \in 1..Len(s) |->
        IF k = 1 \/ ~IsAlpha(s[k - 1]) THEN Upper(s[k]) ELSE Lower(s[k])]

(***************************************************************************)
(* Literals                                                                *)
(***************************************************************************)
DELIM == <<"-", "-", "-">>
TEMPLATE == <<"t", "e", "m", "p", "l", "a", "t", "e">>
POST_HTML == <<"p", "o", "s", "t", ".", "h", "t", "m", "l">>
DEFAULT_HTML == <<"d", "e", "f", "a", "u", "l", "t", ".", "h", "t", "m", "l">>
PAGE_HTML == <<"p", "a", "g", "e", ".", "h", "t", "m", "l">>
GONE_HTML == <<"g", "o", "n", "e", ".", "h", "t", "m", "l">>
DOT_MD == <<".", "m", "d">>
DOT_HTML == <<".", "h", "t", "m", "l">>

(***************************************************************************)
(* convert_to_html                                                         *)
(***************************************************************************)
\* the dict after metadata[key] = value
SetItem(m, key, value) ==
    [k \in (DOMAIN m) \cup {key} |-> IF k = key THEN value ELSE m[k]]

EmptyDict == [k \in {} |-> <<>>]

\* the for loop over lines, from line k on, with the locals count and metadata
RECURSIVE ScanLines(_, _, _, _)
ScanLines(lines, k, count, metadata) ==
    IF k > Len(lines) THEN metadata
    ELSE IF startswith(lines[k], DELIM)
         THEN IF count + 1 = 2 THEN metadata
              ELSE ScanLines(lines, k + 1, count + 1, metadata)
         ELSE LET parts == split1(lines[k], ":")
              IN  IF Len(parts) = 2
                  THEN ScanLines(lines, k + 1, count,
                                 SetItem(metadata, strip(parts[1]), strip(parts[2])))
                  ELSE ScanLines(lines, k + 1, count, metadata)

BodyOffset(metadata) == Cardinality(DOMAIN metadata) + 2

\* the lines joined the way the nl2br extension renders a line break
RECURSIVE JoinBr(_, _)
JoinBr(lines, k) ==
    IF k > Len(lines) THEN <<>>
    ELSE (IF k = 1 THEN <<>> ELSE <<"<br />">>) \o lines[k] \o JoinBr(lines, k + 1)

\* markdown.markdown(text, extensions=['nl2br']) of the joined lines
markdown(lines) ==
    IF lines = <<>> THEN <<>> ELSE <<"<p>">> \o JoinBr(lines, 1) \o <<"</p>">>

convert_to_html(input_text) ==
    LET metadata == ScanLines(input_text, 1, 0, EmptyDict)
        offset == BodyOffset(metadata)
    IN  [metadata |-> metadata,
         offset |-> offset,
         html |-> markdown(Drop(input_text, offset))]

(***************************************************************************)
(* determine_html_subdir                                                   *)
(***************************************************************************)
OUTPUT_DIR == <<"dist">>

\* metadata.get(key), metadata.get(key, default)
get(metadata, key, default) ==
    IF key \in DOMAIN metadata THEN metadata[key] ELSE default

determine_html_subdir(metadata) ==
    IF get(metadata, TEMPLATE, None) = POST_HTML
    THEN OUTPUT_DIR \o <<"html", "blog">>
    ELSE IF get(metadata, TEMPLATE, None) # DEFAULT_HTML
         THEN OUTPUT_DIR \o <<"html">>
         ELSE OUTPUT_DIR

(***************************************************************************)
(* html_editor.HtmlEditor, add_posts, add_utils, inject_html               *)
(***************************************************************************)
POST_LIST_TARGET == <<"<ul id='posts'>">>
BODY_CLOSE == <<"</body>">>
DEV_SCRIPT == <<"<script type='module' src=\"/js/dev.js\"></script>", "\n">>

\* HtmlEditor(html, anchor, element, prepend).add_html()
add_html(html, anchor, element, prepend) ==
    LET k == find(html, anchor)
    IN  IF k = 0 THEN html
        ELSE IF prepend
             THEN Take(html, k - 1) \o element \o Drop(html, k - 1)
             ELSE Take(html, k - 1 + Len(anchor)) \o element
                  \o Drop(html, k - 1 + Len(anchor))

add_posts(input_text, post_list) ==
    add_html(input_text, POST_LIST_TARGET, post_list, FALSE)

add_utils(input_text) == add_html(input_text, BODY_CLOSE, DEV_SCRIPT, TRUE)

\* the condition of the if statement of inject_html
UtilsEnabledOr(settings) ==
    settings.DEBUG = TRUE \/ settings.CLIENT_SIDE_ROUTING = FALSE

UtilsEnabled(settings) ==
    settings.DEBUG = TRUE /\ settings.CLIENT_SIDE_ROUTING = FALSE

inject_html(output_text, post_list, settings) ==
    LET updated_html == add_posts(output_text, post_list)
    IN  IF UtilsEnabled(settings) THEN add_utils(updated_html) ELSE updated_html

(***************************************************************************)
(* Specifications of the single functions: the argument is drawn from a    *)
(* bounded set, the call is one step.                                      *)
(***************************************************************************)
\* the state of a process in which build_site has not been called
NoBuild ==
    /\ mainDir = <<>> /\ blogDir = <<>>
    /\ cfg = [DEBUG |-> FALSE, CLIENT_SIDE_ROUTING |-> FALSE]
    /\ scssOk = TRUE
    /\ dist = <<>> /\ dirs = {}
    /\ pc = "call" /\ i = 0
    /\ posts = None
    /\ trace = <<>> /\ passed = {} /\ written = {}
    /\ failed = "none" /\ raised = "none" /\ logged = "none" /\ printed = FALSE
    /\ run = 0 /\ prevDist = <<>>
    /\ todo = {}

Return(value) ==
    /\ pc = "call"
    /\ pc' = "return"
    /\ res' = value
    /\ UNCHANGED <<arg, mainDir, blogDir, cfg, scssOk, dist, dirs, i, posts, trace,
                   passed, written, failed, raised, logged, printed, run, prevDist,
                   todo>>

SeqsUpTo(S, n) == UNION {[1..k -> S] : k \in 0..n}

\* ---- convert_to_html ----
SampleLines ==
    { DELIM,
      <<"-", "-", "-", "-">>,
      <<"a", ":", " ", "1">>,
      <<"a", " ", ":", "2">>,
      <<"b", ":", "x">>,
      <<"x">>,
      <<>> }

ParserInit ==
    /\ arg \in SeqsUpTo(SampleLines, MaxLines) \ {<<>>}
    /\ res = None
    /\ NoBuild

CallConvertToHtml == Return(convert_to_html(arg))

ParserNext == CallConvertToHtml

ParserSpec == ParserInit /\ [][ParserNext]_vars

IsDelimLine(line) == startswith(line, DELIM)

DelimLines(text) == {k \in 1..Len(text) : IsDelimLine(text[k])}

HasColon(line) == \E k \in 1..Len(line) : line[k] = ":"

\* positions of the opening and of the closing delimiter line
OpenPos(text) == CHOOSE k \in DelimLines(text) : \A h \in DelimLines(text) : k <= h

ClosePos(text) ==
    CHOOSE k \in DelimLines(text) \ {OpenPos(text)} :
        \A h \in DelimLines(text) \ {OpenPos(text)} : k <= h

HasBlock(text) == Cardinality(DelimLines(text)) >= 2

SkippedInBlock(text) ==
    Cardinality({k \in (OpenPos(text) + 1)..(ClosePos(text) - 1) : ~HasColon(text[k])})

\* C3: a document with no delimiter line parses to an empty metadata mapping
\* and a body offset of exactly 2, whatever its lines contain.
C3_NoBlockEmptyMetadata ==
    (pc = "return" /\ DelimLines(arg) = {})
        => (res.metadata = EmptyDict /\ res.offset = 2)

\* C4: for a document that opens with a block bounded by two delimiter lines,
\* the body offset is the (0-based) index of the line after the closing
\* delimiter minus the number of colon-less lines inside the block.
C4_OffsetIsCloseMinusSkipped ==
    (pc = "return" /\ HasBlock(arg) /\ OpenPos(arg) = 1)
        => res.offset = ClosePos(arg) - SkippedInBlock(arg)

\* ---- determine_html_subdir ----
TITLE == <<"t", "i", "t", "l", "e">>
DATE == <<"d", "a", "t", "e">>

SampleKeys == {TEMPLATE, TITLE, DATE}

SampleValues == {POST_HTML, DEFAULT_HTML, PAGE_HTML, <<>>}

SampleMetadata == UNION {[K -> SampleValues] : K \in SUBSET SampleKeys}

RouterInit ==
    /\ arg \in SampleMetadata
    /\ res = None
    /\ NoBuild

CallDetermineHtmlSubdir == Return(determine_html_subdir(arg))

RouterNext == CallDetermineHtmlSubdir

RouterSpec == RouterInit /\ [][RouterNext]_vars

\* C1: post.html routes to <root>/html/blog; a template that is present and is
\* neither post.html nor default.html routes to <root>/html; no template key,
\* or default.html, routes to the output root.
C1_RoutingTable ==
    pc = "return" =>
        res = (IF TEMPLATE \in DOMAIN arg /\ arg[TEMPLATE] = POST_HTML
                THEN <<"dist", "html", "blog">>
               ELSE IF TEMPLATE \in DOMAIN arg /\ arg[TEMPLATE] # DEFAULT_HTML
                THEN <<"dist", "html">>
               ELSE <<"dist">>)

\* ---- inject_html ----
SampleAtoms == {"x", "<ul id='posts'>", "</body>"}

SamplePostLists == {<<>>, <<"<a href='/html/blog/a.html' class='post-link'>A</a>">>}

InjectorInit ==
    /\ arg \in [output_text : SeqsUpTo(SampleAtoms, MaxHtml),
                post_list : SamplePostLists,
                settings : [DEBUG : BOOLEAN, CLIENT_SIDE_ROUTING : BOOLEAN]]
    /\ res = None
    /\ NoBuild

CallInjectHtml == Return(inject_html(arg.output_text, arg.post_list, arg.settings))

InjectorNext == CallInjectHtml

InjectorSpec == InjectorInit /\ [][InjectorNext]_vars

CountOf(s, atom) == Cardinality({k \in 1..Len(s) : s[k] = atom})

\* C7: inject_html applies add_utils to the result of add_posts exactly when
\* DEBUG is true and CLIENT_SIDE_ROUTING is false, which puts one more
\* development script before </body>; for the other three combinations the
\* result is that of add_posts alone.
C7_UtilsIffDebugAndNotRouting ==
    pc = "return" =>
        LET withPosts == add_posts(arg.output_text, arg.post_list)
            dev == arg.settings.DEBUG /\ ~arg.settings.CLIENT_SIDE_ROUTING
        IN  /\ dev => res = add_utils(withPosts)
            /\ ~dev => res = withPosts
            /\ (CountOf(res, DEV_SCRIPT[1]) = CountOf(withPosts, DEV_SCRIPT[1]) + 1)
                  <=> (dev /\ find(withPosts, BODY_CLOSE) # 0)

C7_Witness ==
    /\ pc = "return"
    /\ arg.settings.DEBUG /\ ~arg.settings.CLIENT_SIDE_ROUTING
    /\ find(arg.output_text, BODY_CLOSE) # 0
    /\ find(arg.output_text, POST_LIST_TARGET) # 0
    /\ arg.post_list # <<>>
    /\ CountOf(res, DEV_SCRIPT[1]) = 1

(***************************************************************************)
(* The build: inputs                                                       *)
(***************************************************************************)
FrontMatter(template) == <<DELIM, TEMPLATE \o <<":", " ">> \o template, DELIM>>

TextPostX == FrontMatter(POST_HTML) \o <<<<"x">>>>
TextPostB == FrontMatter(POST_HTML) \o <<<<"b">>>>
TextDefault == FrontMatter(DEFAULT_HTML) \o <<<<"x">>>>
TextPlain == <<<<"x">>, <<>>, <<"b">>>>
TextGone == FrontMatter(GONE_HTML) \o <<<<"x">>>>

A_MD == <<"a">> \o DOT_MD
B_MD == <<"b">> \o DOT_MD
A_B_MD == <<"a", ".", "b">> \o DOT_MD
N_TXT == <<"n", ".", "t", "x", "t">>

\* entries of INPUT_DIR and of INPUT_DIR/blog the listings are drawn from
MainEntries ==
    { [name |-> A_MD, text |-> TextPostX],
      [name |-> A_MD, text |-> TextDefault],
      [name |-> B_MD, text |-> TextPlain] }

BlogEntries ==
    { [name |-> A_MD, text |-> TextPostB],
      [name |-> A_MD, text |-> TextDefault],
      [name |-> A_B_MD, text |-> TextPostX],
      [name |-> N_TXT, text |-> TextPostX],
      [name |-> B_MD, text |-> TextGone] }

\* os.listdir: the entries of a directory, each name once, in some order
Listings(entries, n) ==
    {l \in SeqsUpTo(entries, n) :
        \A j, k \in 1..Len(l) : j # k => l[j].name # l[k].name}

\* the files of the templates directory
Templates ==
    (DEFAULT_HTML :> <<"<body>", "<ul id='posts'>", "{{ content }}", "</body>">>)
    @@ (POST_HTML :> <<"<body>", "{{ content }}", "</body>">>)
    @@ (PAGE_HTML :> <<"{{ content }}", "<ul id='posts'>">>)

\* the files of STATIC_DIR/js, STATIC_DIR/img and STATIC_DIR/scss
StaticFiles(ext) ==
    CASE ext = "js" -> <<<<"dev.js">>, <<"app.js">>>>
      [] ext = "img" -> <<<<"logo.png">>>>
      [] OTHER -> <<<<"main.scss">>>>

CSS_OUTPUT_STYLE == "compact"

StalePath == <<OUTPUT_DIR, <<"old.html">>>>

EmptyTree == [p \in {} |-> <<>>]

(***************************************************************************)
(* collect_posts, render, convert_markdown                                 *)
(***************************************************************************)
HTML_EXT == <<"h", "t", "m", "l">>

\* name = filename.split('.')[0]
PostName(filename) == split0(filename, ".")

\* the file an emitted href /html/blog/<name>.html names under OUTPUT_DIR
PostHref(filename) ==
    <<OUTPUT_DIR \o <<"html", "blog">>, PostName(filename) \o <<".">> \o HTML_EXT>>

PostLink(filename) ==
    <<"<a href='/html/blog/">> \o PostName(filename) \o <<".">> \o HTML_EXT
        \o <<"' class='post-link'>">>
        \o replace(title(PostName(filename)), <<"-">>, <<" ">>)
        \o <<"</a>">>

RECURSIVE PostLinks(_, _)
PostLinks(listing, k) ==
    IF k > Len(listing) THEN <<>>
    ELSE PostLink(listing[k].name) \o PostLinks(listing, k + 1)

collect_posts(listing) == PostLinks(listing, 1)

CONTENT == <<"c", "o", "n", "t", "e", "n", "t">>

\* env.get_template(...) or template.render(content=html, **metadata) raises
RenderRaises(metadata) ==
    \/ get(metadata, TEMPLATE, DEFAULT_HTML) \notin DOMAIN Templates
    \/ CONTENT \in DOMAIN metadata

render(metadata, html) ==
    replace(Templates[get(metadata, TEMPLATE, DEFAULT_HTML)], <<"{{ content }}">>, html)

\* filename.replace('.md', '.html')
OutputName(filename) == replace(filename, DOT_MD, DOT_HTML)

\* the path the document is written to
OutputPath(doc) ==
    <<determine_html_subdir(convert_to_html(doc.text).metadata), OutputName(doc.name)>>

\* write_file(path, text)
write_file(files, path, text) ==
    [p \in (DOMAIN files) \cup {path} |-> IF p = path THEN text ELSE files[p]]

\* one iteration of the loop of convert_markdown on the files of the output
\* tree: the new files, the path written, whether an exception was raised
ConvertFileToRoot(files, doc, post_list, settings) ==
    IF ~endswith(doc.name, DOT_MD)
    THEN [raised |-> FALSE, files |-> files, path |-> None]
    ELSE LET parsed == convert_to_html(doc.text)
         IN  IF RenderRaises(parsed.metadata)
             THEN [raised |-> TRUE, files |-> files, path |-> None]
             ELSE LET output_text == render(parsed.metadata, parsed.html)
                      amended_output_text == inject_html(output_text, post_list, settings)
                      path == <<OUTPUT_DIR, OutputName(doc.name)>>
                  IN  [raised |-> FALSE,
                       files |-> write_file(files, path, amended_output_text),
                       path |-> path]

ConvertFile(files, doc, post_list, settings) ==
    IF ~endswith(doc.name, DOT_MD)
    THEN [raised |-> FALSE, files |-> files, path |-> None]
    ELSE LET parsed == convert_to_html(doc.text)
         IN  IF RenderRaises(parsed.metadata)
             THEN [raised |-> TRUE, files |-> files, path |-> None]
             ELSE LET output_text == render(parsed.metadata, parsed.html)
                      amended_output_text == inject_html(output_text, post_list, settings)
                      write_dir == determine_html_subdir(parsed.metadata)
                      path == <<write_dir, OutputName(doc.name)>>
                  IN  [raised |-> FALSE,
                       files |-> write_file(files, path, amended_output_text),
                       path |-> path]

\* convert_markdown(input_dir, post_list) from entry k on, when nothing raises
RECURSIVE convert_markdown(_, _, _, _, _)
convert_markdown(files, listing, k, post_list, settings) ==
    IF k > Len(listing) THEN files
    ELSE convert_markdown(ConvertFile(files, listing[k], post_list, settings).files,
                          listing, k + 1, post_list, settings)

(***************************************************************************)
(* build_site                                                              *)
(***************************************************************************)
\* the calls of build_site, in the order of its statements
build_site_reset_first ==
    <<"reset_dist", "collect_posts", "convert_main", "convert_blog",
      "copy_js", "copy_img", "compile_sass">>

build_site_late_reset ==
    <<"collect_posts", "convert_main", "reset_dist", "convert_blog",
      "copy_js", "copy_img", "compile_sass">>

build_site ==
    <<"collect_posts", "reset_dist", "convert_main", "convert_blog",
      "copy_js", "copy_img", "compile_sass">>

StageAfter(stage) ==
    LET k == CHOOSE j \in 1..Len(build_site) : build_site[j] = stage
    IN  IF k = Len(build_site) THEN "finish" ELSE build_site[k + 1]

\* the call returns and build_site goes on to its next statement
Complete ==
    /\ trace' = Append(trace, pc)
    /\ pc' = StageAfter(pc)
    /\ i' = 1
    /\ failed' = failed
    /\ raised' = raised

\* the call raises and nothing catches the exception
Abort(exc) ==
    /\ failed' = pc
    /\ raised' = exc
    /\ pc' = "aborted"
    /\ i' = i
    /\ trace' = trace

StandardDirs == {OUTPUT_DIR, OUTPUT_DIR \o <<"html">>, OUTPUT_DIR \o <<"html", "blog">>}

BuildInit ==
    /\ arg = None /\ res = None
    /\ mainDir \in Listings(MainEntries, MaxMainFiles)
    /\ blogDir \in Listings(BlogEntries, MaxBlogFiles)
    /\ cfg \in [DEBUG : BOOLEAN, CLIENT_SIDE_ROUTING : BOOLEAN]
    /\ scssOk \in BOOLEAN
    /\ \/ dist = EmptyTree /\ dirs = {}
       \/ dist = (StalePath :> <<"stale">>) /\ dirs = {OUTPUT_DIR, OUTPUT_DIR \o <<"css">>}
    /\ pc = build_site[1] /\ i = 1
    /\ posts = None
    /\ trace = <<>> /\ passed = {} /\ written = {}
    /\ failed = "none" /\ raised = "none" /\ logged = "none" /\ printed = FALSE
    /\ run = 1 /\ prevDist = <<dist>>
    /\ todo = {}

CollectPosts ==
    /\ pc = "collect_posts"
    /\ \/ posts' = collect_posts(blogDir) /\ Complete
       \/ posts' = posts /\ Abort("OSError")
    /\ UNCHANGED <<arg, res, mainDir, blogDir, cfg, scssOk, dist, dirs, passed,
                   written, logged, printed, run, prevDist, todo>>

\* reset_dist when rmtree is left out and the directories may exist
ResetDistKeep ==
    /\ pc = "reset_dist"
    /\ dist' = dist /\ dirs' = dirs \cup StandardDirs /\ Complete
    /\ UNCHANGED <<arg, res, mainDir, blogDir, cfg, scssOk, posts, passed,
                   written, logged, printed, run, prevDist, todo>>

ResetDist ==
    /\ pc = "reset_dist"
    /\ \/ \* rmtree removes the tree (or there is none), makedirs creates it
          dist' = EmptyTree /\ dirs' = StandardDirs /\ Complete
       \/ \* rmtree fails and the error is ignored; makedirs raises
          /\ OUTPUT_DIR \in dirs
          /\ dist' \in {dist, EmptyTree}
          /\ dirs' = dirs
          /\ Abort("FileExistsError")
    /\ UNCHANGED <<arg, res, mainDir, blogDir, cfg, scssOk, posts, passed,
                   written, logged, printed, run, prevDist, todo>>

ConvertStep ==
    /\ pc \in {"convert_main", "convert_blog"}
    /\ LET listing == IF pc = "convert_main" THEN mainDir ELSE blogDir
       IN  IF i > Len(listing)
           THEN Complete /\ UNCHANGED <<dist, passed, written>>
           ELSE LET r == ConvertFile(dist, listing[i], posts, cfg)
                IN  \/ \* not a Markdown file
                       /\ ~r.raised /\ r.path = None
                       /\ i' = i + 1
                       /\ UNCHANGED <<pc, trace, failed, raised, dist, passed, written>>
                    \/ \* converted and written
                       /\ ~r.raised /\ r.path # None /\ r.path[1] \in dirs
                       /\ dist' = r.files
                       /\ written' = written \cup {r.path}
                       /\ passed' = passed \cup {posts}
                       /\ i' = i + 1
                       /\ UNCHANGED <<pc, trace, failed, raised>>
                    \/ \* read_file, render or write_file raises
                       /\ endswith(listing[i].name, DOT_MD)
                       /\ Abort(IF r.raised THEN "TemplateNotFound" ELSE "OSError")
                       /\ UNCHANGED <<dist, passed, written>>
    /\ UNCHANGED <<arg, res, mainDir, blogDir, cfg, scssOk, dirs, posts,
                   logged, printed, run, prevDist, todo>>

\* the output tree after the first n files of STATIC_DIR/ext are copied
RECURSIVE CopyFiles(_, _, _)
CopyFiles(files, ext, n) ==
    IF n = 0 THEN files
    ELSE write_file(CopyFiles(files, ext, n - 1),
                    <<OUTPUT_DIR \o <<ext>>, StaticFiles(ext)[n]>>,
                    <<"copy of ", ext, "/">> \o StaticFiles(ext)[n])

CopiedPaths(ext, n) == {<<OUTPUT_DIR \o <<ext>>, StaticFiles(ext)[k]>> : k \in 1..n}

CopyStaticFiles ==
    /\ pc \in {"copy_js", "copy_img"}
    /\ LET ext == IF pc = "copy_js" THEN "js" ELSE "img"
           scripts_dst == OUTPUT_DIR \o <<ext>>
       IN  \/ \* os.mkdir raises
              /\ Abort("OSError")
              /\ UNCHANGED <<dist, dirs, written>>
           \/ \* the first n files are copied; fewer than all: copyfile raises
              /\ scripts_dst \notin dirs /\ OUTPUT_DIR \in dirs
              /\ \E n \in 0..Len(StaticFiles(ext)) :
                    /\ dirs' = dirs \cup {scripts_dst}
                    /\ dist' = CopyFiles(dist, ext, n)
                    /\ written' = written \cup CopiedPaths(ext, n)
                    /\ IF n = Len(StaticFiles(ext)) THEN Complete ELSE Abort("OSError")
    /\ UNCHANGED <<arg, res, mainDir, blogDir, cfg, scssOk, posts, passed,
                   logged, printed, run, prevDist, todo>>

\* the except clause of compile_sass
CaughtNothing(exc) == FALSE

Caught(exc) == exc = "CompileError"

CompileSass ==
    /\ pc = "compile_sass"
    /\ LET output_dir == OUTPUT_DIR \o <<"css">>
           style == IF cfg.DEBUG = TRUE THEN "expanded" ELSE CSS_OUTPUT_STYLE
           path == <<output_dir, <<"main.css">>>>
       IN  \E exc \in {IF scssOk THEN "none" ELSE "CompileError", "OSError"} :
              IF exc = "none"
              THEN /\ dist' = write_file(dist, path, <<"css of main.scss, ", style>>)
                   /\ dirs' = dirs \cup {output_dir}
                   /\ written' = written \cup {path}
                   /\ logged' = logged
                   /\ Complete
              ELSE IF Caught(exc)
              THEN /\ logged' = exc
                   /\ Complete
                   /\ UNCHANGED <<dist, dirs, written>>
              ELSE /\ Abort(exc)
                   /\ UNCHANGED <<dist, dirs, written, logged>>
    /\ UNCHANGED <<arg, res, mainDir, blogDir, cfg, scssOk, posts, passed,
                   printed, run, prevDist, todo>>

\* build_finish and the print of the duration
Finish ==
    /\ pc = "finish"
    /\ printed' = TRUE
    /\ pc' = "done"
    /\ UNCHANGED <<arg, res, mainDir, blogDir, cfg, scssOk, dist, dirs, i, posts,
                   trace, passed, written, failed, raised, logged, run, prevDist, todo>>

\* build_site is called again, inputs and configuration unchanged
Rebuild ==
    /\ pc = "done"
    /\ run < MaxRuns
    /\ run' = run + 1
    /\ prevDist' = Append(prevDist, dist)
    /\ pc' = build_site[1] /\ i' = 1
    /\ posts' = None
    /\ trace' = <<>> /\ passed' = {} /\ written' = {}
    /\ logged' = "none" /\ printed' = FALSE
    /\ UNCHANGED <<arg, res, mainDir, blogDir, cfg, scssOk, dist, dirs, failed, raised,
                   todo>>

Next ==
    \/ CollectPosts
    \/ ResetDist
    \/ ConvertStep
    \/ CopyStaticFiles
    \/ CompileSass
    \/ Finish
    \/ Rebuild

Spec == BuildInit /\ [][Next]_vars

(***************************************************************************)
(* Properties of the build                                                 *)
(***************************************************************************)
IsPrefix(s, t) == Len(s) <= Len(t) /\ s = SubSeq(t, 1, Len(s))

Running == pc \notin {"aborted", "finish", "done"}

ClaimedOrder ==
    <<"reset_dist", "collect_posts", "convert_main", "convert_blog",
      "copy_js", "copy_img", "compile_sass">>

CodeOrder ==
    <<"collect_posts", "reset_dist", "convert_main", "convert_blog",
      "copy_js", "copy_img", "compile_sass">>

PosIn(order, stage) == CHOOSE k \in 1..Len(order) : order[k] = stage

C5_FailFastExceptSass ==
    /\ failed # "none" =>
          /\ pc = "aborted"
          /\ ~printed
          /\ \A k \in 1..Len(trace) : PosIn(CodeOrder, trace[k]) < PosIn(CodeOrder, failed)
    /\ pc = "aborted" => failed # "none"
    /\ raised # "CompileError"
    /\ logged # "none" =>
          /\ logged = "CompileError"
          /\ failed = "none"
          /\ pc \in {"finish", "done"}
          /\ trace = CodeOrder
    /\ pc = "done" => (printed /\ (~scssOk => logged = "CompileError"))
    /\ pc = "finish" => ENABLED Finish

C5_Witness == pc = "done" /\ logged = "CompileError" /\ printed /\ ~scssOk

\* C6: at Done the output tree holds exactly the files this build wrote, so
\* nothing of the tree the build started from survives, and the tree after a
\* second build equals the tree after the first.
C6_RebuildIdempotent ==
    pc = "done" =>
        /\ DOMAIN dist = written
        /\ StalePath \notin DOMAIN dist
        /\ run >= 2 => dist = prevDist[run]

C6_Witness ==
    /\ pc = "done" /\ run = 2
    /\ StalePath \in DOMAIN prevDist[1]
    /\ Cardinality(DOMAIN dist) >= 5

\* C9: after a build that is done, the href emitted for every entry of the
\* blog directory names a file the build wrote under <root>/html/blog.
C9_LinksAreWritten ==
    pc = "done" => \A k \in 1..Len(blogDir) : PostHref(blogDir[k].name) \in written

\* C10: whenever a page is being converted or anything has been written, the
\* reset and the collection of the post index are complete, and every call of
\* inject_html was given the fragment collect_posts returned.
C10_Barrier ==
    /\ (\/ pc \in {"convert_main", "convert_blog", "copy_js", "copy_img", "compile_sass"}
        \/ written # {}
        \/ passed # {})
          => /\ "reset_dist" \in Range(trace)
             /\ "collect_posts" \in Range(trace)
             /\ posts = collect_posts(blogDir)
    /\ passed \subseteq {collect_posts(blogDir)}

C10_Witness ==
    /\ pc = "copy_js"
    /\ Cardinality(written) >= 2
    /\ passed = {posts}
    /\ posts # <<>>
    /\ \E k \in 1..Len(mainDir) : endswith(mainDir[k].name, DOT_MD)

(***************************************************************************)
(* Per-document conversion by a pool of workers: after the post index is   *)
(* collected and the tree reset, the documents of both directories are     *)
(* converted in any order.                                                 *)
(***************************************************************************)
Documents ==
    {<<"main", k>> : k \in 1..Len(mainDir)} \cup {<<"blog", k>> : k \in 1..Len(blogDir)}

DocumentOf(t) == IF t[1] = "main" THEN mainDir[t[2]] ELSE blogDir[t[2]]

PoolInit ==
    /\ arg = None /\ res = None
    /\ mainDir \in Listings(MainEntries, MaxMainFiles)
    /\ blogDir \in Listings(BlogEntries, MaxBlogFiles)
    /\ cfg \in [DEBUG : BOOLEAN, CLIENT_SIDE_ROUTING : BOOLEAN]
    /\ scssOk = TRUE
    /\ dist = EmptyTree /\ dirs = StandardDirs
    /\ pc = "convert" /\ i = 1
    /\ posts = collect_posts(blogDir)
    /\ trace = <<>> /\ passed = {} /\ written = {}
    /\ failed = "none" /\ raised = "none" /\ logged = "none" /\ printed = FALSE
    /\ run = 1 /\ prevDist = <<dist>>
    /\ todo = Documents

PoolConvert ==
    /\ pc = "convert"
    /\ \E t \in todo :
          LET r == ConvertFile(dist, DocumentOf(t), posts, cfg)
          IN  IF r.raised
              THEN /\ pc' = "aborted" /\ failed' = "convert"
                   /\ raised' = "TemplateNotFound"
                   /\ UNCHANGED <<dist, todo, trace, passed, written>>
              ELSE /\ dist' = r.files
                   /\ todo' = todo \ {t}
                   /\ trace' = Append(trace, t)
                   /\ written' = IF r.path = None THEN written ELSE written \cup {r.path}
                   /\ passed' = IF r.path = None THEN passed ELSE passed \cup {posts}
                   /\ UNCHANGED <<pc, failed, raised>>
    /\ UNCHANGED <<arg, res, mainDir, blogDir, cfg, scssOk, dirs, i, posts,
                   logged, printed, run, prevDist>>

PoolJoin ==
    /\ pc = "convert"
    /\ todo = {}
    /\ pc' = "joined"
    /\ UNCHANGED <<arg, res, mainDir, blogDir, cfg, scssOk, dist, dirs, i, posts, trace,
                   passed, written, failed, raised, logged, printed, run, prevDist,
                   todo>>

PoolNext == PoolConvert \/ PoolJoin

PoolSpec == PoolInit /\ [][PoolNext]_vars

\* the pages of the sequential build: INPUT_DIR, then INPUT_DIR/blog
SequentialPages ==
    convert_markdown(convert_markdown(EmptyTree, mainDir, 1, posts, cfg),
                     blogDir, 1, posts, cfg)

Markdown == {t \in Documents : endswith(DocumentOf(t).name, DOT_MD)}

DistinctOutputPaths ==
    \A t, u \in Markdown : t # u => OutputPath(DocumentOf(t)) # OutputPath(DocumentOf(u))

====
